---- MODULE Spec2Model ----
(***************************************************************************)
(* Model of the Impact Change backend (src/server.js): an Express server   *)
(* with four routes, /health, /create-payment-intent, /send-invoice-email  *)
(* and /test-email, that forwards amounts to a payment processor and sends *)
(* invoice emails through a mail transport chosen from the environment.    *)
(*                                                                         *)
(* JavaScript values are records [t, n, d, s]: t is the type tag, n/d the  *)
(* value of a number as a fraction, s the characters of a string.  A       *)
(* string is a sequence of pieces: digits produced by number formatting    *)
(* are one piece per character, literal fragments of templates are one     *)
(* piece each.                                                             *)
(***************************************************************************)
EXTENDS Integers, Sequences, FiniteSets

VARIABLES env, now, pc, req, ext, frame, resp, nresp, calls, escaped

vars == <<env, now, pc, req, ext, frame, resp, nresp, calls, escaped>>

(***************************************************************************)
(* Bounds of the model.                                                    *)
(***************************************************************************)
NumRequests == 2        \* requests in flight together under Spec
MaxClock == 2           \* last clock value (epoch milliseconds) under Spec
MaxOrderClock == 12     \* last clock value under SpecOrder
RandomDen == 2000       \* Math.random() takes the values k / RandomDen

(***************************************************************************)
(* JavaScript values.                                                      *)
(***************************************************************************)
Undefined == [t |-> "undefined", n |-> 0, d |-> 1, s |-> <<>>]
Null == [t |-> "null", n |-> 0, d |-> 1, s |-> <<>>]
NaN == [t |-> "NaN", n |-> 0, d |-> 1, s |-> <<>>]
False == [t |-> "boolean", n |-> 0, d |-> 1, s |-> <<>>]
True == [t |-> "boolean", n |-> 1, d |-> 1, s |-> <<>>]
Num(k) == [t |-> "number", n |-> k, d |-> 1, s |-> <<>>]
Frac(k, den) == [t |-> "number", n |-> k, d |-> den, s |-> <<>>]
Str(cs) == [t |-> "string", n |-> 0, d |-> 1, s |-> cs]
Object(tag) == [t |-> "object", n |-> 0, d |-> 1, s |-> <<tag>>]

\* ToBoolean: undefined, null, NaN, 0, false and "" are falsy.
Truthy(v) ==
    CASE v.t = "undefined" -> FALSE
      [] v.t = "null" -> FALSE
      [] v.t = "NaN" -> FALSE
      [] v.t = "boolean" -> v.n = 1
      [] v.t = "number" -> v.n # 0
      [] v.t = "string" -> v.s # <<>>
      [] OTHER -> TRUE

\* a || b
Or(a, b) == IF Truthy(a) THEN a ELSE b

\* !!a
Bool(a) == IF Truthy(a) THEN True ELSE False

Digit(k) == <<"0", "1", "2", "3", "4", "5", "6", "7", "8", "9">>[k + 1]

RECURSIVE Digits(_)
\* Decimal digits of a natural number, most significant first.
Digits(k) == IF k < 10 THEN <<Digit(k)>> ELSE Append(Digits(k \div 10), Digit(k % 10))

\* String(v) as template interpolation `${v}` computes it; numbers of the
\* model that reach a template are integers.
TemplateString(v) ==
    CASE v.t = "string" -> v.s
      [] v.t = "number" ->
            IF v.n < 0 THEN <<"-">> \o Digits((0 - v.n) \div v.d) ELSE Digits(v.n \div v.d)
      [] v.t = "boolean" -> IF v.n = 1 THEN <<"true">> ELSE <<"false">>
      [] v.t = "object" -> <<"[object Object]">>
      [] OTHER -> <<v.t>>

\* Math.floor(x) and Math.round(x) of the fraction num / den, den > 0;
\* Math.round rounds halves towards +Infinity.
MathFloor(num, den) == num \div den
MathRound(num, den) == (2 * num + den) \div (2 * den)

(***************************************************************************)
(* Process environment (process.env), read-only after start.               *)
(***************************************************************************)
EnvNames == {"SMTP_HOST", "SMTP_PORT", "SMTP_SECURE", "SMTP_USER", "SMTP_PASS",
             "EMAIL_USER", "EMAIL_PASS", "EMAIL_FROM", "NODE_ENV", "BASE_URL", "PORT"}

NoEnv == [k \in EnvNames |-> Undefined]

\* An environment variable is unset, set to the empty string, or set.
EnvValues(v) == {Undefined, Str(<<>>), Str(<<v>>)}

(***************************************************************************)
(* createEmailTransporter: the options handed to nodemailer.createTransport*)
(***************************************************************************)
NoTransport == [kind |-> "none", host |-> Undefined, port |-> Undefined,
                secure |-> Undefined, service |-> Undefined,
                user |-> Undefined, pass |-> Undefined]

\* Faulty variant of createEmailTransporter: the hosted provider is tried first.
createEmailTransporterGmailFirst(e) ==
    IF Truthy(e.EMAIL_USER) /\ Truthy(e.EMAIL_PASS)
    THEN [NoTransport EXCEPT !.kind = "gmail", !.service = Str(<<"gmail">>),
                             !.user = e.EMAIL_USER, !.pass = e.EMAIL_PASS]
    ELSE IF Truthy(e.SMTP_HOST) /\ Truthy(e.SMTP_USER) /\ Truthy(e.SMTP_PASS)
    THEN [NoTransport EXCEPT !.kind = "smtp", !.host = e.SMTP_HOST,
                             !.port = Or(e.SMTP_PORT, Num(587)),
                             !.secure = IF e.SMTP_SECURE = Str(<<"true">>) THEN True ELSE False,
                             !.user = e.SMTP_USER, !.pass = e.SMTP_PASS]
    ELSE [NoTransport EXCEPT !.kind = "test", !.host = Str(<<"localhost">>),
                             !.port = Num(1025), !.secure = False,
                             !.user = Null, !.pass = Null]

createEmailTransporter(e) ==
    IF Truthy(e.SMTP_HOST) /\ Truthy(e.SMTP_USER) /\ Truthy(e.SMTP_PASS)
    THEN [NoTransport EXCEPT !.kind = "smtp", !.host = e.SMTP_HOST,
                             !.port = Or(e.SMTP_PORT, Num(587)),
                             !.secure = IF e.SMTP_SECURE = Str(<<"true">>) THEN True ELSE False,
                             !.user = e.SMTP_USER, !.pass = e.SMTP_PASS]
    ELSE IF Truthy(e.EMAIL_USER) /\ Truthy(e.EMAIL_PASS)
    THEN [NoTransport EXCEPT !.kind = "gmail", !.service = Str(<<"gmail">>),
                             !.user = e.EMAIL_USER, !.pass = e.EMAIL_PASS]
    ELSE [NoTransport EXCEPT !.kind = "test", !.host = Str(<<"localhost">>),
                             !.port = Num(1025), !.secure = False,
                             !.user = Null, !.pass = Null]

(***************************************************************************)
(* generateOrderNumber: `ORD-${Date.now()}-${Math.floor(Math.random()*1000)}`*)
(* t is Date.now(), u the numerator of Math.random() = u / RandomDen.      *)
(***************************************************************************)
\* Faulty variant of generateOrderNumber: the separator before the suffix is lost.
generateOrderNumberNoSeparator(t, u) ==
    Str(<<"ORD-">> \o TemplateString(Num(t))
        \o TemplateString(Num(MathFloor(u * 1000, RandomDen))))

generateOrderNumber(t, u) ==
    Str(<<"ORD-">> \o TemplateString(Num(t)) \o <<"-">>
        \o TemplateString(Num(MathFloor(u * 1000, RandomDen))))

(***************************************************************************)
(* Requests, errors, external results and responses.                       *)
(***************************************************************************)
\* req.body.  selectedService and paymentData are undefined, null or an
\* object; the service* and payment* fields are the object's properties.
NoBody == [amount |-> Undefined, currency |-> Undefined,
           selectedService |-> Undefined, serviceName |-> Undefined,
           servicePrice |-> Undefined, serviceCategory |-> Undefined,
           serviceCategoryName |-> Undefined,
           paymentData |-> Undefined, paymentName |-> Undefined,
           paymentEmail |-> Undefined, paymentIntentId |-> Undefined,
           orderNumber |-> Undefined, orderDate |-> Undefined]

NoRequest == [route |-> "none", body |-> NoBody]

\* obj?.prop, with prop the value the property has when obj is an object.
Prop(obj, prop) == IF obj.t = "object" THEN prop ELSE Undefined

\* An Error object.
NoError == [message |-> Undefined, stack |-> Undefined]
Error(msg) == [message |-> Str(<<msg>>), stack |-> Str(<<"Error: ", msg, "\n    at ...">>)]

\* What an awaited external call settles with: the payment intent
\* (client_secret), the mail info (messageId, and the preview URL that
\* nodemailer.getTestMessageUrl derives from it), or an error.
NoResult == [kind |-> "none", value |-> Undefined, preview |-> Undefined, error |-> NoError]
Resolves(value, preview) == [kind |-> "resolves", value |-> value, preview |-> preview, error |-> NoError]
Rejects(error) == [kind |-> "rejects", value |-> Undefined, preview |-> Undefined, error |-> error]

\* The external inputs one request consumes: the clock and random values
\* read, whether nodemailer.createTransport threw, what the external call
\* threw synchronously, and what it settled with.
NoExt == [t |-> 0, u |-> 0, transportThrown |-> NoError, thrown |-> NoError, result |-> NoResult]

RespFields == {"status", "timestamp", "environment", "clientSecret", "error",
               "details", "stack", "success", "messageId", "orderNumber",
               "previewUrl", "message", "service", "hasSelectedService",
               "hasPaymentData", "hasEmail"}

NoFields == [f \in RespFields |-> Undefined]
NoResponse == [status |-> 0, body |-> NoFields]

NoMail == [from |-> Undefined, to |-> Undefined, subject |-> Undefined,
           html |-> Undefined, text |-> Undefined]

NoFrame == [finalOrderNumber |-> Undefined, finalOrderDate |-> Undefined,
            transporter |-> NoTransport, mailOptions |-> NoMail]

NoCalls == [generateOrderNumber |-> 0, createTransport |-> <<>>, verify |-> 0,
            sendMail |-> <<>>, stripe |-> <<>>]

\* new Date(t).toISOString(), rendered abstractly from the instant t.
toISOString(t) == Str(<<"ISO(">> \o Digits(t) \o <<")">>)

\* formatDate: new Date(date).toLocaleDateString('en-US', long month),
\* rendered abstractly from the date string.
formatDate(date) == <<"formatDate(">> \o TemplateString(date) \o <<")">>

(***************************************************************************)
(* /create-payment-intent: the parameters of stripe.paymentIntents.create. *)
(***************************************************************************)
\* Faulty variant of ToCents: the amount is truncated instead of rounded.
ToCentsTruncated(amount) ==
    IF amount.t = "number" THEN Num(MathFloor(amount.n * 100, amount.d)) ELSE NaN

\* Math.round(amount * 100); undefined * 100 is NaN.
ToCents(amount) ==
    IF amount.t = "number" THEN Num(MathRound(amount.n * 100, amount.d)) ELSE NaN

PaymentIntentParams(b) ==
    [amount |-> ToCents(b.amount), currency |-> Str(<<"usd">>),
     automatic_payment_methods |-> True]

(***************************************************************************)
(* /send-invoice-email: validation, order number, composition.             *)
(***************************************************************************)
\* Faulty variant of MissingRequired: only the service is required.
MissingRequiredServiceOnly(b) == ~Truthy(b.selectedService)

\* !selectedService || !paymentData?.email
MissingRequired(b) ==
    ~Truthy(b.selectedService) \/ ~Truthy(Prop(b.paymentData, b.paymentEmail))

\* Faulty variant of NeedsOrderNumber: an order number is always generated.
NeedsOrderNumberAlways(orderNumber) == TRUE

\* orderNumber || generateOrderNumber(): the right operand is evaluated
\* exactly when orderNumber is falsy.
NeedsOrderNumber(orderNumber) == ~Truthy(orderNumber)

\* calculateTotal: selectedService.price || 0
calculateTotal(b) == Or(Prop(b.selectedService, b.servicePrice), Num(0))

generateEmailHTML(b, orderNumber, orderDate, e) ==
    Str(<<"<html><img src=\"">>
        \o TemplateString(Or(e.BASE_URL,
               Str(<<"http://localhost:">> \o TemplateString(Or(e.PORT, Num(4242))))))
        \o <<"/images/ImpactChange.png\">Hi ">>
        \o TemplateString(Or(Prop(b.paymentData, b.paymentName), Str(<<"[Client Name]">>)))
        \o <<",Order Number: ">> \o TemplateString(orderNumber)
        \o <<"Order Date: ">> \o formatDate(orderDate)
        \o <<"Product / Service ">>
        \o TemplateString(Or(Prop(b.selectedService, b.serviceName), Str(<<"[Service Name]">>)))
        \o <<" $">>
        \o TemplateString(Or(Prop(b.selectedService, b.servicePrice), Str(<<"[Amount]">>)))
        \o <<"Subtotal: $">> \o TemplateString(calculateTotal(b))
        \o <<"Total: $">> \o TemplateString(calculateTotal(b))
        \o <<"</html>">>)

MailOptions(b, orderNumber, orderDate, e) ==
    [from |-> Or(e.EMAIL_FROM,
                 Str(<<"\"Impact Change\" <">>
                     \o TemplateString(Or(e.EMAIL_USER, Str(<<"noreply@impactchange.com">>)))
                     \o <<">">>)),
     to |-> Prop(b.paymentData, b.paymentEmail),
     subject |-> Str(<<"Order Confirmation #">> \o TemplateString(orderNumber)
                     \o <<" - Impact Change">>),
     html |-> generateEmailHTML(b, orderNumber, orderDate, e),
     text |-> Str(<<"Thank you for your order #">> \o TemplateString(orderNumber)
                  \o <<"!\n\nService: ">>
                  \o TemplateString(Prop(b.selectedService, b.serviceName))
                  \o <<"\nCategory: ">>
                  \o TemplateString(Or(Prop(b.selectedService, b.serviceCategoryName),
                                        Prop(b.selectedService, b.serviceCategory)))
                  \o <<"\nTotal: $">> \o TemplateString(calculateTotal(b))
                  \o <<"\n\nPayment Reference: ">>
                  \o TemplateString(Or(b.paymentIntentId, Str(<<"N/A">>)))
                  \o <<"\n\nThank you for choosing Impact Change!">>)]

(***************************************************************************)
(* Response bodies.                                                        *)
(***************************************************************************)
HealthResponse(e, t) ==
    [status |-> 200,
     body |-> [NoFields EXCEPT !.status = Str(<<"ok">>),
                               !.timestamp = toISOString(t),
                               !.environment = Or(e.NODE_ENV, Str(<<"development">>))]]

PaymentIntentResponse(intent) ==
    [status |-> 200, body |-> [NoFields EXCEPT !.clientSecret = intent.value]]

\* Faulty variant of PaymentIntentError: a fixed message replaces the processor's.
PaymentIntentErrorGeneric(error) ==
    [status |-> 500, body |-> [NoFields EXCEPT !.error = Str(<<"Payment failed">>)]]

PaymentIntentError(error) ==
    [status |-> 500, body |-> [NoFields EXCEPT !.error = error.message]]

ValidationResponse(b) ==
    [status |-> 400,
     body |-> [NoFields EXCEPT
                 !.error = Str(<<"Missing required fields: selectedService or paymentData.email">>),
                 !.hasSelectedService = Bool(b.selectedService),
                 !.hasPaymentData = Bool(b.paymentData),
                 !.hasEmail = Bool(Prop(b.paymentData, b.paymentEmail))]]

InvoiceResponse(info, finalOrderNumber) ==
    [status |-> 200,
     body |-> [NoFields EXCEPT !.success = True,
                               !.messageId = info.value,
                               !.orderNumber = finalOrderNumber,
                               !.previewUrl = info.preview]]

\* Faulty variant of StackField: the stack is sent whenever the mode is not production.
StackFieldNotProduction(e, error) ==
    IF e.NODE_ENV # Str(<<"production">>) THEN error.stack ELSE Undefined

\* process.env.NODE_ENV === 'development' ? error.stack : undefined
StackField(e, error) ==
    IF e.NODE_ENV = Str(<<"development">>) THEN error.stack ELSE Undefined

InvoiceError(e, error) ==
    [status |-> 500,
     body |-> [NoFields EXCEPT !.error = Str(<<"Failed to send invoice email">>),
                               !.details = error.message,
                               !.stack = StackField(e, error)]]

TestEmailResponse(transporter) ==
    [status |-> 200,
     body |-> [NoFields EXCEPT !.success = True,
                               !.message = Str(<<"Email configuration is valid">>),
                               !.service = Or(transporter.service, transporter.host)]]

TestEmailError(e, error) ==
    [status |-> 500,
     body |-> [NoFields EXCEPT !.error = Str(<<"Email configuration failed">>),
                               !.details = error.message,
                               !.service = Or(e.SMTP_HOST, Str(<<"gmail">>))]]

(***************************************************************************)
(* Handlers.  A handler runs from the request to its first await in one    *)
(* step, and from the settling of the awaited call to its end in another.  *)
(***************************************************************************)
\* res.json / res.send: the response is sent and the handler ends.
Respond(r, response) ==
    /\ resp' = [resp EXCEPT ![r] = response]
    /\ nresp' = [nresp EXCEPT ![r] = @ + 1]
    /\ pc' = [pc EXCEPT ![r] = "done"]
    /\ escaped' = escaped

\* Faulty variant of Caught: the error leaves the handler and nothing is sent.
Uncaught(r, response) ==
    /\ escaped' = [escaped EXCEPT ![r] = TRUE]
    /\ pc' = [pc EXCEPT ![r] = "done"]
    /\ UNCHANGED <<resp, nresp>>

\* The catch block of a route: the error thrown or rejected inside the try
\* is answered with the route's error response.
Caught(r, response) == Respond(r, response)

\* Faulty variant of Closure: the locals live in one slot shared by the
\* requests suspended at the same await.
ClosureShared(r) ==
    frame[CHOOSE q \in DOMAIN frame : pc[q] = pc[r]]

\* The locals of the suspended handler of request r, which its continuation
\* reads after the await.
Closure(r) == frame[r]

\* The clock advances.
Tick(last) ==
    /\ now < last
    /\ now' = now + 1
    /\ UNCHANGED <<env, pc, req, ext, frame, resp, nresp, calls, escaped>>

\* app.get('/health')
Health(r) ==
    /\ pc[r] = "idle"
    /\ req' = [req EXCEPT ![r] = [route |-> "/health", body |-> NoBody]]
    /\ ext' = [ext EXCEPT ![r] = [NoExt EXCEPT !.t = now]]
    /\ Respond(r, HealthResponse(env, now))
    /\ UNCHANGED <<env, now, frame, calls>>

\* app.post('/create-payment-intent') up to the await: thrown is what
\* stripe.paymentIntents.create throws synchronously, NoError if nothing.
CreatePaymentIntent(r, b, thrown) ==
    /\ pc[r] = "idle"
    /\ req' = [req EXCEPT ![r] = [route |-> "/create-payment-intent", body |-> b]]
    /\ ext' = [ext EXCEPT ![r] = [NoExt EXCEPT !.thrown = thrown]]
    /\ calls' = [calls EXCEPT ![r].stripe = Append(@, PaymentIntentParams(b))]
    /\ IF thrown = NoError
       THEN /\ pc' = [pc EXCEPT ![r] = "awaitStripe"]
            /\ UNCHANGED <<resp, nresp, escaped>>
       ELSE Caught(r, PaymentIntentError(thrown))
    /\ UNCHANGED <<env, now, frame>>

\* app.post('/create-payment-intent') after the await.
PaymentIntentSettled(r, result) ==
    /\ pc[r] = "awaitStripe"
    /\ ext' = [ext EXCEPT ![r].result = result]
    /\ IF result.kind = "resolves"
       THEN Respond(r, PaymentIntentResponse(result))
       ELSE Caught(r, PaymentIntentError(result.error))
    /\ UNCHANGED <<env, now, req, frame, calls>>

\* app.post('/send-invoice-email') up to the await.  u is the value of
\* Math.random(), transportThrown what nodemailer.createTransport throws and
\* thrown what transporter.sendMail throws synchronously.
SendInvoiceEmail(r, b, u, transportThrown, thrown) ==
    /\ pc[r] = "idle"
    /\ req' = [req EXCEPT ![r] = [route |-> "/send-invoice-email", body |-> b]]
    /\ IF MissingRequired(b)
       THEN /\ ext' = [ext EXCEPT ![r] = NoExt]
            /\ Respond(r, ValidationResponse(b))
            /\ UNCHANGED <<frame, calls>>
       ELSE LET generate == NeedsOrderNumber(b.orderNumber)
                finalOrderNumber == IF generate THEN generateOrderNumber(now, u)
                                                ELSE b.orderNumber
                finalOrderDate == Or(b.orderDate, toISOString(now))
                transporter == createEmailTransporter(env)
                mailOptions == MailOptions(b, finalOrderNumber, finalOrderDate, env)
                generated == IF generate THEN 1 ELSE 0
            IN  IF transportThrown # NoError
                THEN /\ ext' = [ext EXCEPT ![r] = [NoExt EXCEPT !.t = now,
                                   !.u = IF generate THEN u ELSE 0,
                                   !.transportThrown = transportThrown]]
                     /\ calls' = [calls EXCEPT ![r].generateOrderNumber = @ + generated,
                                               ![r].createTransport = Append(@, transporter)]
                     /\ Caught(r, InvoiceError(env, transportThrown))
                     /\ UNCHANGED frame
                ELSE /\ ext' = [ext EXCEPT ![r] = [NoExt EXCEPT !.t = now,
                                   !.u = IF generate THEN u ELSE 0,
                                   !.thrown = thrown]]
                     /\ calls' = [calls EXCEPT ![r].generateOrderNumber = @ + generated,
                                               ![r].createTransport = Append(@, transporter),
                                               ![r].sendMail = Append(@, mailOptions)]
                     /\ IF thrown # NoError
                        THEN /\ Caught(r, InvoiceError(env, thrown))
                             /\ UNCHANGED frame
                        ELSE /\ frame' = [frame EXCEPT ![r] =
                                    [finalOrderNumber |-> finalOrderNumber,
                                     finalOrderDate |-> finalOrderDate,
                                     transporter |-> transporter,
                                     mailOptions |-> mailOptions]]
                             /\ pc' = [pc EXCEPT ![r] = "awaitSendMail"]
                             /\ UNCHANGED <<resp, nresp, escaped>>
    /\ UNCHANGED <<env, now>>

\* app.post('/send-invoice-email') after the await.
SendMailSettled(r, result) ==
    /\ pc[r] = "awaitSendMail"
    /\ ext' = [ext EXCEPT ![r].result = result]
    /\ IF result.kind = "resolves"
       THEN Respond(r, InvoiceResponse(result, Closure(r).finalOrderNumber))
       ELSE Caught(r, InvoiceError(env, result.error))
    /\ UNCHANGED <<env, now, req, frame, calls>>

\* app.post('/test-email') up to the await.
TestEmail(r, transportThrown, thrown) ==
    /\ pc[r] = "idle"
    /\ req' = [req EXCEPT ![r] = [route |-> "/test-email", body |-> NoBody]]
    /\ IF transportThrown # NoError
       THEN /\ ext' = [ext EXCEPT ![r] = [NoExt EXCEPT !.transportThrown = transportThrown]]
            /\ calls' = [calls EXCEPT ![r].createTransport = Append(@, createEmailTransporter(env))]
            /\ Caught(r, TestEmailError(env, transportThrown))
            /\ UNCHANGED frame
       ELSE /\ ext' = [ext EXCEPT ![r] = [NoExt EXCEPT !.thrown = thrown]]
            /\ calls' = [calls EXCEPT ![r].createTransport = Append(@, createEmailTransporter(env)),
                                      ![r].verify = @ + 1]
            /\ IF thrown # NoError
               THEN /\ Caught(r, TestEmailError(env, thrown))
                    /\ UNCHANGED frame
               ELSE /\ frame' = [frame EXCEPT ![r] =
                           [NoFrame EXCEPT !.transporter = createEmailTransporter(env)]]
                    /\ pc' = [pc EXCEPT ![r] = "awaitVerify"]
                    /\ UNCHANGED <<resp, nresp, escaped>>
    /\ UNCHANGED <<env, now>>

\* app.post('/test-email') after the await.
VerifySettled(r, result) ==
    /\ pc[r] = "awaitVerify"
    /\ ext' = [ext EXCEPT ![r].result = result]
    /\ IF result.kind = "resolves"
       THEN Respond(r, TestEmailResponse(Closure(r).transporter))
       ELSE Caught(r, TestEmailError(env, result.error))
    /\ UNCHANGED <<env, now, req, frame, calls>>

(***************************************************************************)
(* Inputs: environments, request bodies, external results.                 *)
(***************************************************************************)
Requests == 1 .. NumRequests
OneRequest == {1}
OrderRequests == {1, 2}

\* Every setting of the five mail credentials, with and without the port
\* and secure settings.
EnvAll ==
    {[NoEnv EXCEPT !.SMTP_HOST = h, !.SMTP_USER = u, !.SMTP_PASS = p,
                   !.EMAIL_USER = eu, !.EMAIL_PASS = ep,
                   !.SMTP_PORT = port, !.SMTP_SECURE = secure] :
        h \in EnvValues("smtp.example.com"), u \in EnvValues("mailer"),
        p \in EnvValues("smtp-secret"), eu \in EnvValues("shop@gmail.com"),
        ep \in EnvValues("app-password"),
        port \in {Undefined, Str(<<"2525">>)},
        secure \in {Undefined, Str(<<"true">>)}}

EnvSmtp == [NoEnv EXCEPT !.SMTP_HOST = Str(<<"smtp.example.com">>),
                         !.SMTP_USER = Str(<<"mailer">>),
                         !.SMTP_PASS = Str(<<"smtp-secret">>)]
EnvGmail == [NoEnv EXCEPT !.EMAIL_USER = Str(<<"shop@gmail.com">>),
                          !.EMAIL_PASS = Str(<<"app-password">>)]
EnvBoth == [EnvSmtp EXCEPT !.EMAIL_USER = Str(<<"shop@gmail.com">>),
                           !.EMAIL_PASS = Str(<<"app-password">>)]
EnvPartial == [EnvBoth EXCEPT !.SMTP_PASS = Undefined]

NodeEnvs == {Undefined, Str(<<"production">>), Str(<<"development">>), Str(<<"staging">>)}

\* Mail configurations crossed with runtime environment names.
EnvRoutes ==
    {[e EXCEPT !.NODE_ENV = m] :
        e \in {NoEnv, EnvSmtp, EnvGmail, EnvBoth, EnvPartial}, m \in NodeEnvs}

EnvLean == {NoEnv, [EnvGmail EXCEPT !.NODE_ENV = Str(<<"development">>)]}

InvoiceBody(service, payment, orderNumber, paymentIntentId) ==
    [NoBody EXCEPT
       !.selectedService = IF service THEN Object("selectedService") ELSE Undefined,
       !.serviceName = IF service THEN Str(<<"Logo Design">>) ELSE Undefined,
       !.servicePrice = IF service THEN Num(150) ELSE Undefined,
       !.serviceCategory = IF service THEN Str(<<"design">>) ELSE Undefined,
       !.paymentData = CASE payment = "absent" -> Undefined
                         [] payment = "null" -> Null
                         [] OTHER -> Object("paymentData"),
       !.paymentName = IF payment \in {"noEmail", "full"} THEN Str(<<"Jane Doe">>)
                                                         ELSE Undefined,
       !.paymentEmail = IF payment = "full" THEN Str(<<"jane@example.com">>)
                                            ELSE Undefined,
       !.orderNumber = orderNumber,
       !.paymentIntentId = paymentIntentId]

OrderNumbers == {Undefined, Str(<<>>), Num(0), Str(<<"A", "7">>), Num(42)}

InvoiceBodies ==
    {InvoiceBody(sv, pd, on, pi) :
        sv \in BOOLEAN, pd \in {"absent", "null", "noEmail", "full"},
        on \in OrderNumbers, pi \in {Undefined, Str(<<"pi_123">>)}}

InvoiceBodiesLean ==
    {InvoiceBody(TRUE, "full", Undefined, Undefined),
     InvoiceBody(TRUE, "full", Str(<<"A", "7">>), Undefined),
     InvoiceBody(FALSE, "full", Undefined, Undefined)}

InvoiceBodiesOrder == {InvoiceBody(TRUE, "full", Undefined, Undefined)}

Amounts == {Undefined, Frac(4999, 100), Frac(1, 200), Frac(1996, 1000),
            Frac(1004, 1000), Num(10), Num(0), Frac(0 - 5, 2)}

PaymentBodies ==
    {[NoBody EXCEPT !.amount = a, !.currency = c] :
        a \in Amounts, c \in {Undefined, Str(<<"eur">>)}}

PaymentBodiesLean == {[NoBody EXCEPT !.amount = Frac(4999, 100)]}

\* Numerators of Math.random(): suffixes 0, 3, 10, 23 and 999.
Randoms == {0, 6, 20, 46, RandomDen - 1}
RandomsLean == {46}

StripeErrors == {Error("Your card was declined."), Error("Invalid API Key provided")}
StripeErrorsLean == {Error("Your card was declined.")}
MailErrors == {Error("connect ECONNREFUSED 127.0.0.1:1025")}
TransportErrors == {Error("Cannot create transport")}

StripeResults ==
    {Resolves(Str(<<"pi_1_secret_a">>), Undefined), Resolves(Str(<<"pi_2_secret_b">>), Undefined)}
        \cup {Rejects(e) : e \in StripeErrors}
StripeResultsLean ==
    {Resolves(Str(<<"pi_1_secret_a">>), Undefined)} \cup {Rejects(e) : e \in StripeErrorsLean}

\* sendMail resolves with the info; getTestMessageUrl(info) is false
\* unless the sink provides a preview.
MailResults ==
    {Resolves(Str(<<"<msg-1@impactchange.com>">>), False),
     Resolves(Str(<<"<msg-2@ethereal.email>">>), Str(<<"https://ethereal.email/message/2">>))}
        \cup {Rejects(e) : e \in MailErrors}
MailResultsLean ==
    {Resolves(Str(<<"<msg-1@impactchange.com>">>), False)} \cup {Rejects(e) : e \in MailErrors}

VerifyResults == {Resolves(True, Undefined)} \cup {Rejects(e) : e \in MailErrors}

(***************************************************************************)
(* Specifications.                                                         *)
(***************************************************************************)
InitWith(E) ==
    /\ env \in E
    /\ now = 1
    /\ pc = [r \in Requests |-> "idle"]
    /\ req = [r \in Requests |-> NoRequest]
    /\ ext = [r \in Requests |-> NoExt]
    /\ frame = [r \in Requests |-> NoFrame]
    /\ resp = [r \in Requests |-> NoResponse]
    /\ nresp = [r \in Requests |-> 0]
    /\ calls = [r \in Requests |-> NoCalls]
    /\ escaped = [r \in Requests |-> FALSE]

\* Concurrent requests.
Init == InitWith(EnvLean)

Next ==
    \/ Tick(MaxClock)
    \/ \E r \in Requests : Health(r)
    \/ \E r \in Requests, b \in PaymentBodiesLean, thrown \in {NoError} \cup StripeErrorsLean :
          CreatePaymentIntent(r, b, thrown)
    \/ \E r \in Requests, result \in StripeResultsLean : PaymentIntentSettled(r, result)
    \/ \E r \in Requests, b \in InvoiceBodiesLean, u \in RandomsLean,
          tt \in {NoError} \cup TransportErrors, thrown \in {NoError} \cup MailErrors :
          SendInvoiceEmail(r, b, u, tt, thrown)
    \/ \E r \in Requests, result \in MailResultsLean : SendMailSettled(r, result)
    \/ \E r \in Requests, tt \in {NoError} \cup TransportErrors,
          thrown \in {NoError} \cup MailErrors : TestEmail(r, tt, thrown)
    \/ \E r \in Requests, result \in VerifyResults : VerifySettled(r, result)

Spec == Init /\ [][Next]_vars

\* One request at a time, every request body and result.
InitRoutes == InitWith(EnvRoutes)

NextRoutes ==
    \/ Tick(MaxClock)
    \/ \E r \in OneRequest : Health(r)
    \/ \E r \in OneRequest, b \in PaymentBodies, thrown \in {NoError} \cup StripeErrors :
          CreatePaymentIntent(r, b, thrown)
    \/ \E r \in OneRequest, result \in StripeResults : PaymentIntentSettled(r, result)
    \/ \E r \in OneRequest, b \in InvoiceBodies, u \in Randoms,
          tt \in {NoError} \cup TransportErrors, thrown \in {NoError} \cup MailErrors :
          SendInvoiceEmail(r, b, u, tt, thrown)
    \/ \E r \in OneRequest, result \in MailResults : SendMailSettled(r, result)
    \/ \E r \in OneRequest, tt \in {NoError} \cup TransportErrors,
          thrown \in {NoError} \cup MailErrors : TestEmail(r, tt, thrown)
    \/ \E r \in OneRequest, result \in VerifyResults : VerifySettled(r, result)

SpecRoutes == InitRoutes /\ [][NextRoutes]_vars

\* Every mail configuration, the two routes that create a transport.
InitConfig == InitWith(EnvAll)

NextConfig ==
    \/ \E r \in OneRequest, b \in InvoiceBodiesLean, u \in RandomsLean,
          tt \in {NoError} \cup TransportErrors, thrown \in {NoError} \cup MailErrors :
          SendInvoiceEmail(r, b, u, tt, thrown)
    \/ \E r \in OneRequest, result \in MailResultsLean : SendMailSettled(r, result)
    \/ \E r \in OneRequest, tt \in {NoError} \cup TransportErrors,
          thrown \in {NoError} \cup MailErrors : TestEmail(r, tt, thrown)
    \/ \E r \in OneRequest, result \in VerifyResults : VerifySettled(r, result)

SpecConfig == InitConfig /\ [][NextConfig]_vars

\* Two invoice requests without an order number over a long clock.
InitOrder == InitWith({NoEnv})

NextOrder ==
    \/ Tick(MaxOrderClock)
    \/ \E r \in OrderRequests, b \in InvoiceBodiesOrder, u \in Randoms,
          tt \in {NoError} \cup TransportErrors, thrown \in {NoError} \cup MailErrors :
          SendInvoiceEmail(r, b, u, tt, thrown)
    \/ \E r \in OrderRequests, result \in MailResultsLean : SendMailSettled(r, result)

SpecOrder == InitOrder /\ [][NextOrder]_vars

(***************************************************************************)
(* A handler run on its own: the response and the outbound calls of one    *)
(* request as functions of the environment e, the body b and the external  *)
(* inputs x the request consumed.                                          *)
(***************************************************************************)
AloneOrderNumber(b, x) ==
    IF Truthy(b.orderNumber) THEN b.orderNumber ELSE generateOrderNumber(x.t, x.u)

AloneMail(e, b, x) ==
    MailOptions(b, AloneOrderNumber(b, x), Or(b.orderDate, toISOString(x.t)), e)

AloneFailure(x) ==
    IF x.transportThrown # NoError THEN x.transportThrown
    ELSE IF x.thrown # NoError THEN x.thrown
    ELSE x.result.error

AloneResponse(e, route, b, x) ==
    CASE route = "/health" -> HealthResponse(e, x.t)
      [] route = "/create-payment-intent" ->
            IF x.thrown = NoError /\ x.result.kind = "resolves"
            THEN PaymentIntentResponse(x.result)
            ELSE PaymentIntentError(AloneFailure(x))
      [] route = "/send-invoice-email" ->
            IF ~Truthy(b.selectedService) \/ ~Truthy(Prop(b.paymentData, b.paymentEmail))
            THEN ValidationResponse(b)
            ELSE IF x.transportThrown = NoError /\ x.thrown = NoError
                    /\ x.result.kind = "resolves"
            THEN InvoiceResponse(x.result, AloneOrderNumber(b, x))
            ELSE InvoiceError(e, AloneFailure(x))
      [] route = "/test-email" ->
            IF x.transportThrown = NoError /\ x.thrown = NoError
               /\ x.result.kind = "resolves"
            THEN TestEmailResponse(createEmailTransporter(e))
            ELSE TestEmailError(e, AloneFailure(x))
      [] OTHER -> NoResponse

AloneCalls(e, route, b, x) ==
    CASE route = "/create-payment-intent" ->
            [NoCalls EXCEPT !.stripe = <<PaymentIntentParams(b)>>]
      [] route = "/send-invoice-email" ->
            IF ~Truthy(b.selectedService) \/ ~Truthy(Prop(b.paymentData, b.paymentEmail))
            THEN NoCalls
            ELSE [NoCalls EXCEPT
                    !.generateOrderNumber = IF Truthy(b.orderNumber) THEN 0 ELSE 1,
                    !.createTransport = <<createEmailTransporter(e)>>,
                    !.sendMail = IF x.transportThrown = NoError
                                 THEN <<AloneMail(e, b, x)>> ELSE <<>>]
      [] route = "/test-email" ->
            [NoCalls EXCEPT
               !.createTransport = <<createEmailTransporter(e)>>,
               !.verify = IF x.transportThrown = NoError THEN 1 ELSE 0]
      [] OTHER -> NoCalls

(***************************************************************************)
(* Properties.                                                             *)
(***************************************************************************)
\* sub occurs in s as a contiguous run of pieces.
Contains(s, sub) ==
    \E i \in 0 .. (Len(s) - Len(sub)) : SubSeq(s, i + 1, i + Len(sub)) = sub

DigitPieces == {"0", "1", "2", "3", "4", "5", "6", "7", "8", "9"}

PieceValue(c) == CHOOSE k \in 0 .. 9 : Digit(k) = c

RECURSIVE ParseNat(_)
\* The number a non-empty sequence of digit pieces denotes.
ParseNat(cs) ==
    IF Len(cs) = 1 THEN PieceValue(cs[1])
    ELSE 10 * ParseNat(SubSeq(cs, 1, Len(cs) - 1)) + PieceValue(cs[Len(cs)])

\* cs is the decimal numeral, without leading zeros, of a number in lo..hi.
IsNumeral(cs, lo, hi) ==
    /\ Len(cs) >= 1
    /\ \A i \in 1 .. Len(cs) : cs[i] \in DigitPieces
    /\ Len(cs) > 1 => cs[1] # "0"
    /\ ParseNat(cs) >= lo
    /\ ParseNat(cs) <= hi

IsInvoice(r) == req[r].route = "/send-invoice-email"
IsPayment(r) == req[r].route = "/create-payment-intent"

\* An environment variable counts as set when it is a non-empty string.
IsSet(v) == v.t = "string" /\ v.s # <<>>
SmtpConfigured(e) == IsSet(e.SMTP_HOST) /\ IsSet(e.SMTP_USER) /\ IsSet(e.SMTP_PASS)
GmailConfigured(e) == IsSet(e.EMAIL_USER) /\ IsSet(e.EMAIL_PASS)

\* The body lacks selectedService or paymentData.email.
LacksRequired(b) ==
    \/ b.selectedService.t = "undefined"
    \/ b.paymentData.t \in {"undefined", "null"}
    \/ b.paymentEmail.t = "undefined"

\* C1: an invoice request whose body lacks selectedService or
\* paymentData.email (paymentData absent included) is answered 400 with the
\* error naming the missing fields, once, and neither createTransport nor
\* sendMail is called for it.
C1_MissingFieldsRejected ==
    \A r \in Requests :
        (IsInvoice(r) /\ LacksRequired(req[r].body)) =>
            /\ pc[r] = "done"
            /\ nresp[r] = 1
            /\ resp[r].status = 400
            /\ resp[r].body.error =
                  Str(<<"Missing required fields: selectedService or paymentData.email">>)
            /\ calls[r].createTransport = <<>>
            /\ calls[r].sendMail = <<>>

C1_Witness ==
    \E r \in Requests :
        /\ IsInvoice(r)
        /\ req[r].body.selectedService.t = "object"
        /\ req[r].body.paymentData.t = "undefined"
        /\ resp[r].status = 400

\* The order number on of request r is the one in the subject, the HTML
\* body and the text body of the mail handed to sendMail, and in the
\* orderNumber field of a success response.
OrderNumberUsed(r, on) ==
    /\ \A i \in 1 .. Len(calls[r].sendMail) :
          /\ Contains(calls[r].sendMail[i].subject.s,
                      <<"Order Confirmation #">> \o TemplateString(on) \o <<" - Impact Change">>)
          /\ Contains(calls[r].sendMail[i].html.s,
                      <<",Order Number: ">> \o TemplateString(on) \o <<"Order Date: ">>)
          /\ Contains(calls[r].sendMail[i].text.s,
                      <<"Thank you for your order #">> \o TemplateString(on) \o <<"!\n\nService: ">>)
    /\ resp[r].status = 200 => resp[r].body.orderNumber = on

\* C2 as stated: a valid invoice request that supplies any orderNumber,
\* the empty string and 0 included, never calls generateOrderNumber and
\* uses the supplied value.
C2_AnySuppliedOrderNumberUsed ==
    \A r \in Requests :
        (IsInvoice(r) /\ ~LacksRequired(req[r].body)
            /\ req[r].body.orderNumber.t # "undefined") =>
            /\ calls[r].generateOrderNumber = 0
            /\ OrderNumberUsed(r, req[r].body.orderNumber)

\* C2 amended: a valid invoice request that supplies a truthy orderNumber
\* (a non-empty string, a non-zero number) never calls generateOrderNumber,
\* and the supplied value is the one in the subject, the HTML body, the
\* text body and the orderNumber field of the response.
C2_TruthyOrderNumberUsed ==
    \A r \in Requests :
        (IsInvoice(r) /\ ~LacksRequired(req[r].body)
            /\ Truthy(req[r].body.orderNumber)) =>
            /\ calls[r].generateOrderNumber = 0
            /\ OrderNumberUsed(r, req[r].body.orderNumber)

C2_Witness ==
    \E r \in Requests :
        /\ IsInvoice(r)
        /\ req[r].body.orderNumber = Str(<<"A", "7">>)
        /\ Len(calls[r].sendMail) = 1
        /\ resp[r].status = 200
        /\ resp[r].body.orderNumber = Str(<<"A", "7">>)

\* Request r is a valid invoice request without an orderNumber whose
\* handler reached sendMail and suspended: its identifier is in its frame.
HasGeneratedOrderNumber(r) ==
    /\ IsInvoice(r)
    /\ ~LacksRequired(req[r].body)
    /\ req[r].body.orderNumber.t = "undefined"
    /\ frame[r] # NoFrame

\* cs is ORD-<t>-<k> with k the numeral of a number in 0..999.
IsOrderNumberAt(cs, t) ==
    LET head == <<"ORD-">> \o Digits(t) \o <<"-">>
    IN  /\ Len(cs) > Len(head)
        /\ SubSeq(cs, 1, Len(head)) = head
        /\ IsNumeral(SubSeq(cs, Len(head) + 1, Len(cs)), 0, 999)

\* C3: the identifier generated for a valid invoice request without an
\* orderNumber is ORD-<t>-<r>, t the clock value read by the handler and
\* 0 <= r <= 999, it is the identifier of the mail and of the response, and
\* two identifiers generated at different clock values differ.
C3_GeneratedOrderNumber ==
    /\ \A r \in Requests :
          HasGeneratedOrderNumber(r) =>
             /\ calls[r].generateOrderNumber = 1
             /\ ext[r].t <= now
             /\ frame[r].finalOrderNumber.t = "string"
             /\ IsOrderNumberAt(frame[r].finalOrderNumber.s, ext[r].t)
             /\ OrderNumberUsed(r, frame[r].finalOrderNumber)
    /\ \A r1, r2 \in Requests :
          (HasGeneratedOrderNumber(r1) /\ HasGeneratedOrderNumber(r2)
              /\ ext[r1].t # ext[r2].t) =>
             frame[r1].finalOrderNumber # frame[r2].finalOrderNumber

C3_Witness ==
    \E r1, r2 \in Requests :
        /\ HasGeneratedOrderNumber(r1) /\ HasGeneratedOrderNumber(r2)
        /\ ext[r1].t = 1 /\ ext[r2].t = 12
        /\ ext[r1].u = 46 /\ ext[r2].u = 6
        /\ resp[r1].status = 200 /\ resp[r2].status = 200
        /\ resp[r1].body.orderNumber = Str(<<"ORD-", "1", "-", "2", "3">>)
        /\ resp[r2].body.orderNumber = Str(<<"ORD-", "1", "2", "-", "3">>)

\* C4: the transport created is SMTP exactly when SMTP host, user and
\* password are all set, whatever else is set; otherwise gmail exactly when
\* the hosted-provider user and password are both set; otherwise the local
\* test sink.  One transport is created per request that needs one.
C4_TransportSelection ==
    \A r \in Requests :
        /\ Len(calls[r].createTransport) <= 1
        /\ \A i \in 1 .. Len(calls[r].createTransport) :
              LET transporter == calls[r].createTransport[i]
              IN  /\ transporter.kind \in {"smtp", "gmail", "test"}
                  /\ SmtpConfigured(env) =>
                        /\ transporter.kind = "smtp"
                        /\ transporter.host = env.SMTP_HOST
                        /\ transporter.user = env.SMTP_USER
                        /\ transporter.pass = env.SMTP_PASS
                  /\ (~SmtpConfigured(env) /\ GmailConfigured(env)) =>
                        /\ transporter.kind = "gmail"
                        /\ transporter.service = Str(<<"gmail">>)
                        /\ transporter.user = env.EMAIL_USER
                        /\ transporter.pass = env.EMAIL_PASS
                  /\ (~SmtpConfigured(env) /\ ~GmailConfigured(env)) =>
                        /\ transporter.kind = "test"
                        /\ transporter.host = Str(<<"localhost">>)

C4_Witness ==
    \E r \in Requests :
        /\ SmtpConfigured(env) /\ GmailConfigured(env)
        /\ Len(calls[r].createTransport) = 1
        /\ calls[r].createTransport[1].kind = "smtp"
        /\ pc[r] = "done"

Abs(k) == IF k < 0 THEN 0 - k ELSE k

\* C5: for a payment request with amount A > 0 the one request to the
\* processor carries the integer nearest to A * 100 (4999 for 49.99),
\* currency "usd" and automatic payment methods enabled, whatever else the
\* body and the environment hold.
C5_AmountInMinorUnits ==
    \A r \in Requests :
        (IsPayment(r) /\ req[r].body.amount.t = "number" /\ req[r].body.amount.n > 0) =>
            /\ Len(calls[r].stripe) = 1
            /\ LET sent == calls[r].stripe[1]
                   A == req[r].body.amount
               IN  /\ sent.amount.t = "number"
                   /\ sent.amount.d = 1
                   /\ 2 * Abs(sent.amount.n * A.d - A.n * 100) <= A.d
                   /\ A = Frac(4999, 100) => sent.amount = Num(4999)
                   /\ sent.currency = Str(<<"usd">>)
                   /\ sent.automatic_payment_methods = True

C5_Witness ==
    \E r \in Requests :
        /\ IsPayment(r)
        /\ req[r].body.amount = Frac(4999, 100)
        /\ req[r].body.currency = Str(<<"eur">>)
        /\ calls[r].stripe[1].amount = Num(4999)
        /\ pc[r] = "done"

\* The error request r met: thrown by createTransport, thrown by the
\* external call, or the rejection of the awaited call.
Failure(r) == AloneFailure(ext[r])
Failed(r) == Failure(r) # NoError

\* C6: a payment request calls the processor at most once; when the call
\* fails the response is 500 with the processor's message as error, and
\* when it succeeds the response carries the processor's client secret.
C6_GatewayResultSurfaced ==
    \A r \in Requests :
        IsPayment(r) =>
            /\ Len(calls[r].stripe) <= 1
            /\ pc[r] = "done" =>
                  /\ nresp[r] = 1
                  /\ Failed(r) =>
                        /\ resp[r].status = 500
                        /\ resp[r].body.error = Failure(r).message
                        /\ resp[r].body.clientSecret = Undefined
                  /\ ~Failed(r) =>
                        /\ ext[r].result.kind = "resolves"
                        /\ resp[r].status = 200
                        /\ resp[r].body.clientSecret = ext[r].result.value
                        /\ resp[r].body.error = Undefined

C6_Witness ==
    \E r \in Requests :
        /\ IsPayment(r)
        /\ pc[r] = "done"
        /\ ext[r].result = Rejects(Error("Your card was declined."))
        /\ resp[r].status = 500
        /\ resp[r].body.error = Str(<<"Your card was declined.">>)

\* C7 as stated: with neither SMTP nor hosted-provider credentials
\* configured, a valid invoice request whose mail was handed to the
\* test-sink transport is answered success:true.
C7_TestSinkAlwaysSucceeds ==
    \A r \in Requests :
        (IsInvoice(r) /\ ~LacksRequired(req[r].body)
            /\ ~SmtpConfigured(env) /\ ~GmailConfigured(env)
            /\ Len(calls[r].sendMail) = 1 /\ ext[r].thrown = NoError
            /\ pc[r] = "done") =>
            /\ calls[r].createTransport[1].kind = "test"
            /\ resp[r].status = 200
            /\ resp[r].body.success = True

C9_ExactlyOneResponse ==
    \A r \in Requests :
        /\ ~escaped[r]
        /\ pc[r] = "done" => nresp[r] = 1 /\ resp[r].status \in {200, 400, 500}
        /\ pc[r] # "done" => nresp[r] = 0 /\ resp[r] = NoResponse
        /\ (pc[r] = "done" /\ Failed(r)) => resp[r].status = 500

C9_Witness ==
    \E r1, r2 \in Requests :
        /\ r1 # r2
        /\ pc[r1] = "done" /\ ext[r1].thrown # NoError /\ resp[r1].status = 500
        /\ pc[r2] = "done" /\ ext[r2].result.kind = "rejects" /\ resp[r2].status = 500

\* Every response sent and every outbound call made for request r is the
\* one the request gets when handled alone with the same external inputs.
AsIfAlone(r) ==
    /\ nresp[r] = 1 =>
          resp[r] = AloneResponse(env, req[r].route, req[r].body, ext[r])
    /\ req[r].route # "none" =>
          calls[r] = AloneCalls(env, req[r].route, req[r].body, ext[r])

\* C10: whatever the interleaving of the handlers' steps, no step writes
\* the process environment, and each request's response and outbound
\* calls are those of the request handled alone.
C10_NoInterference ==
    /\ [](\A r \in Requests : AsIfAlone(r))
    /\ [][env' = env]_vars

C10_Witness ==
    \E r1, r2 \in Requests :
        /\ r1 < r2
        /\ IsInvoice(r1) /\ IsInvoice(r2)
        /\ req[r1].body.orderNumber = Str(<<"A", "7">>)
        /\ req[r2].body.orderNumber = Undefined
        /\ pc[r1] = "awaitSendMail"
        /\ resp[r2].status = 200
        /\ resp[r2].body.orderNumber = frame[r2].finalOrderNumber

====
